---- MODULE Spec2Model ----
(***************************************************************************)
(* A model of potpourri.cpp: the Vec<T,N> template, the A/B/C hierarchy    *)
(* with its ownership-taking routines, the Adder functor and main().       *)
(*                                                                         *)
(* C++ strings are TLA+ strings (\o is operator+, Len is length()).        *)
(* Vec elements are non-negative decimal numbers [n, e] standing for        *)
(* n / 10^e, kept normalised, so that the float literals of main are        *)
(* represented exactly.                                                    *)
(***************************************************************************)
EXTENDS Integers, Sequences, FiniteSets, TLC

(* ---------------------------------------------------------------- bounds *)
\* longest input token drawn (must exceed UpperLen for the out-of-range case)
MaxTokLen == 11
\* largest Vec size drawn for the operator checks
MaxN == 3

(* ----------------------------------------------------- program constants *)
\* s.length() > 10
UpperLen == 10
\* s.length() < 5
LowerLen == 5
\* int secret = 42
SecretValue == 42

(* ------------------------------------------------------ decimal numbers *)
RECURSIVE Pow10(_)
Pow10(k) == IF k = 0 THEN 1 ELSE 10 * Pow10(k - 1)

RECURSIVE Norm(_)
Norm(x) == IF x.e > 0 /\ x.n % 10 = 0
           THEN Norm([n |-> x.n \div 10, e |-> x.e - 1])
           ELSE x

Dec(n, e) == Norm([n |-> n, e |-> e])

Zero == [n |-> 0, e |-> 0]

\* T operator+(T, T)
NumAdd(x, y) ==
    LET e == IF x.e > y.e THEN x.e ELSE y.e
    IN  Norm([n |-> x.n * Pow10(e - x.e) + y.n * Pow10(e - y.e), e |-> e])

\* T operator*(T, T)
NumMul(x, y) == Norm([n |-> x.n * y.n, e |-> x.e + y.e])

Digit(d) == CASE d = 0 -> "0" [] d = 1 -> "1" [] d = 2 -> "2" [] d = 3 -> "3"
              [] d = 4 -> "4" [] d = 5 -> "5" [] d = 6 -> "6" [] d = 7 -> "7"
              [] d = 8 -> "8" [] d = 9 -> "9"

\* ostream << (integer): decimal digits, most significant first
RECURSIVE IntStr(_)
IntStr(k) == IF k < 10 THEN Digit(k) ELSE IntStr(k \div 10) \o Digit(k % 10)

\* the k low decimal digits of m, zero padded on the left
RECURSIVE Frac(_, _)
Frac(m, k) == IF k = 0 THEN "" ELSE Frac(m \div 10, k - 1) \o Digit(m % 10)

\* ostream << (float) for the short decimals of this model
NumStr(x) == IF x.e = 0 THEN IntStr(x.n)
             ELSE IntStr(x.n \div Pow10(x.e)) \o "." \o Frac(x.n % Pow10(x.e), x.e)

(* ------------------------------------------------------------- Vec<T,N> *)
Thrown(t, w) == [ok |-> FALSE, val |-> <<>>, type |-> t, what |-> w]
Value(v)     == [ok |-> TRUE,  val |-> v,    type |-> "", what |-> ""]

\* Vec() : data() {}
VecDefault(N) == [i \in 1..N |-> Zero]

\* a constructor whose size test is > instead of !=
VecInit_LooseCheck(N, il) ==
    IF Len(il) > N
    THEN Thrown("invalid_argument", "Wrong number of arguments!")
    ELSE Value([i \in 1..N |-> IF i <= Len(il) THEN il[i] ELSE Zero])

\* Vec(std::initializer_list<T> il)
VecInit(N, il) ==
    IF Len(il) # N
    THEN Thrown("invalid_argument", "Wrong number of arguments!")
    ELSE Value([i \in 1..N |-> il[i]])

\* for (int i = 0; i < M; i++) result[i] = data[i] + v[i];
RECURSIVE AddLoop(_, _, _, _)
AddLoop(data, v, result, i) ==
    IF i < Len(v)
    THEN AddLoop(data, v, [result EXCEPT ![i + 1] = NumAdd(data[i + 1], v[i + 1])], i + 1)
    ELSE result

\* for (int i = 0; i < M; i++) result[i] = data[i] * v[i];
RECURSIVE MulLoop(_, _, _, _)
MulLoop(data, v, result, i) ==
    IF i < Len(v)
    THEN MulLoop(data, v, [result EXCEPT ![i + 1] = NumMul(data[i + 1], v[i + 1])], i + 1)
    ELSE result

\* an operator+ whose loop stops one element early
VecAdd_ShortLoop(data, v) ==
    IF Len(data) # Len(v)
    THEN Thrown("invalid_argument", "Vector size mismatch!")
    ELSE Value([i \in 1..Len(v) |->
                  IF i < Len(v) THEN NumAdd(data[i], v[i]) ELSE Zero])

\* Vec<U,M> operator+(const Vec<U,M>& v)
VecAdd(data, v) ==
    IF Len(data) # Len(v)
    THEN Thrown("invalid_argument", "Vector size mismatch!")
    ELSE Value(AddLoop(data, v, VecDefault(Len(v)), 0))

\* Vec<U,M> operator*(const Vec<U,M>& v)
VecMul(data, v) ==
    IF Len(data) # Len(v)
    THEN Thrown("invalid_argument", "Vector size mismatch!")
    ELSE Value(MulLoop(data, v, VecDefault(Len(v)), 0))

\* for (int i = 0; i < N - 1; i++) os << v.data[i] << ", ";
RECURSIVE RenderLoop(_, _, _)
RenderLoop(data, acc, i) ==
    IF i < Len(data) - 1
    THEN RenderLoop(data, acc \o NumStr(data[i + 1]) \o ", ", i + 1)
    ELSE acc

\* the text operator<<(ostream&, const Vec&) writes
VecRender(data) == RenderLoop(data, "[", 0) \o NumStr(data[Len(data)]) \o "]"

(* ------------------------------------------------------------ the state *)
VARIABLES
    pc,       \* where main (or the routine it called) stands
    input,    \* the token waiting on standard input
    s,        \* std::string s
    out,      \* the lines written to std::cout, in order
    exc,      \* the exception in flight, or NoExc
    raised,   \* every exception thrown so far, in order
    f, g, h,  \* the three Vec objects of main
    heap,     \* the A objects: kind, field, lifetime
    vua,      \* std::vector<std::unique_ptr<A>>: object ids, Null for an empty slot
    vpa,      \* std::vector<A*>
    u_ptr,    \* the parameter of takes_ownership
    ctrl,     \* the shared_ptr control block: managed object and use count
    handles,  \* the shared_ptr objects alive that share ctrl
    i,        \* the index of the running loop
    fooLog,   \* every foo() call: the object, the routine calling, whether it was alive
    greet,    \* std::string greet
    secret,   \* int secret
    fv,       \* std::vector<std::function<std::string(std::string)>>
    sv,       \* std::vector<std::string>
    vcall     \* the last Vec operation applied to drawn operands

vecVars == <<f, g, h>>
ownVars == <<heap, vua, vpa, u_ptr, ctrl, handles>>
galVars == <<greet, secret, fv, sv>>
vars == <<pc, input, s, out, exc, raised, vecVars, ownVars, i, fooLog, galVars, vcall>>

Null == 0
\* four make_unique calls and four new expressions
NumObjs == 8
ObjIds == 1..NumObjs
NoExc == [type |-> "none", what |-> ""]
NoCall == [op |-> "none", n |-> 0, a |-> <<>>, b |-> <<>>, res |-> Value(<<>>)]
NoObj == [kind |-> "none", set |-> FALSE, x |-> 0, alive |-> FALSE, dtors |-> 0]
NoCtrl == [obj |-> Null, count |-> 0]

\* "a" repeated n times
RECURSIVE Rep(_)
Rep(n) == IF n = 0 THEN "" ELSE "a" \o Rep(n - 1)

\* the tokens operator>> can deliver (no whitespace), drawn at every length up
\* to the bound: all "a", or with one "b" at any place
TokensUpTo(n) ==
    {Rep(k) : k \in 0..n} \cup
    {Rep(j) \o "b" \o Rep(k - 1 - j) : <<k, j>> \in {p \in (1..n) \X (0..n) : p[2] < p[1]}}

Tokens == TokensUpTo(MaxTokLen)

(* ------------------------------------------------ exceptions and output *)
\* the std::exception hierarchy: whether a handler for `base` catches `type`
IsA(type, base) ==
    \/ type = base
    \/ type \in {"out_of_range", "invalid_argument"} /\ base \in {"logic_error", "exception"}

\* the first handler of the enclosing try block that matches, in order;
\* with none (or no try block) the exception leaves main: std::terminate
RECURSIVE Dispatch(_, _)
Dispatch(handlers, type) ==
    IF handlers = <<>> THEN "terminated"
    ELSE IF IsA(type, Head(handlers).catches) THEN Head(handlers).at
    ELSE Dispatch(Tail(handlers), type)

Throw(r) == [type |-> r.type, what |-> r.what]

\* a validator whose upper test is >= instead of >
Classify_OffByOne(str) ==
    IF Len(str) >= UpperLen THEN Thrown("out_of_range", "Out of range")
    ELSE IF Len(str) < LowerLen THEN Thrown("invalid_argument", "invalid argument")
    ELSE Value(str)

\* the if / else if / else of the first try block
Classify(str) ==
    IF Len(str) > UpperLen THEN Thrown("out_of_range", "Out of range")
    ELSE IF Len(str) < LowerLen THEN Thrown("invalid_argument", "invalid argument")
    ELSE Value(str)

(* ----------------------------------------------------- 1. the try-block *)
\* std::cin >> s
ReadToken ==
    /\ pc = "read"
    /\ s' = input
    /\ pc' = "validate"
    /\ UNCHANGED <<input, out, exc, raised, vecVars, ownVars, i, fooLog, galVars, vcall>>

\* the body of the first try block
Validate ==
    /\ pc = "validate"
    /\ LET r == Classify(s)
       IN  IF r.ok
           THEN /\ out' = Append(out, r.val)
                /\ pc' = "construct"
                /\ UNCHANGED <<exc, raised>>
           ELSE /\ exc' = Throw(r)
                /\ raised' = Append(raised, Throw(r))
                /\ pc' = Dispatch(<<[catches |-> "out_of_range", at |-> "catch_oor"],
                                    [catches |-> "invalid_argument", at |-> "catch_ia"]>>,
                                  r.type)
                /\ out' = out
    /\ UNCHANGED <<input, s, vecVars, ownVars, i, fooLog, galVars, vcall>>

\* catch (const std::out_of_range& e)
CatchOutOfRange ==
    /\ pc = "catch_oor"
    /\ out' = Append(out, exc.what)
    /\ exc' = NoExc
    /\ pc' = "construct"
    /\ UNCHANGED <<input, s, raised, vecVars, ownVars, i, fooLog, galVars, vcall>>

\* catch (const std::invalid_argument& e)
CatchInvalidArgument ==
    /\ pc = "catch_ia"
    /\ out' = Append(out, exc.what)
    /\ exc' = NoExc
    /\ pc' = "construct"
    /\ UNCHANGED <<input, s, raised, vecVars, ownVars, i, fooLog, galVars, vcall>>

(* ------------------------------------------------- 2. constant template *)
\* Vec<float,3> f{...}; Vec<float,3> g{...}; Vec<float,4> h{...}; outside any try
ConstructVecs ==
    /\ pc = "construct"
    /\ LET rf == VecInit(3, <<Dec(1, 1), Dec(2, 1), Dec(3, 1)>>)
           rg == VecInit(3, <<Dec(1, 1), Dec(2, 1), Dec(3, 1)>>)
           rh == VecInit(4, <<Dec(1, 1), Dec(2, 1), Dec(3, 1), Dec(5, 1)>>)
           bad == IF ~rf.ok THEN rf ELSE IF ~rg.ok THEN rg ELSE rh
       IN  IF rf.ok /\ rg.ok /\ rh.ok
           THEN /\ f' = rf.val /\ g' = rg.val /\ h' = rh.val
                /\ pc' = "print_expr"
                /\ UNCHANGED <<exc, raised>>
           ELSE /\ exc' = Throw(bad)
                /\ raised' = Append(raised, Throw(bad))
                /\ pc' = Dispatch(<<>>, bad.type)
                /\ UNCHANGED vecVars
    /\ UNCHANGED <<input, s, out, ownVars, i, fooLog, galVars, vcall>>

\* what std::cout << (f * g) + f writes before operator<< ends
ExprText == VecRender(VecAdd(VecMul(f, g).val, f).val)

\* std::cout << (f * g) + f << '\n': operator<< flows off its end without a
\* return statement (undefined behaviour); here the caller happens to get the
\* stream back and writes the newline
PrintVecExpr ==
    /\ pc = "print_expr"
    /\ out' = Append(out, ExprText)
    /\ pc' = "try_add"
    /\ UNCHANGED <<input, s, exc, raised, vecVars, ownVars, i, fooLog, galVars, vcall>>

\* the same statement in a build where the missing return is fatal: the
\* text is written, then the run ends abnormally
PrintVecExprNoReturn ==
    /\ pc = "print_expr"
    /\ out' = Append(out, ExprText)
    /\ pc' = "crashed"
    /\ UNCHANGED <<input, s, exc, raised, vecVars, ownVars, i, fooLog, galVars, vcall>>

\* try { auto m = g + h; std::cout << m << '\n'; }
TryAdd ==
    /\ pc = "try_add"
    /\ LET r == VecAdd(g, h)
       IN  IF r.ok
           THEN /\ out' = Append(out, VecRender(r.val))
                /\ pc' = "push_vua"
                /\ UNCHANGED <<exc, raised>>
           ELSE /\ exc' = Throw(r)
                /\ raised' = Append(raised, Throw(r))
                /\ pc' = Dispatch(<<[catches |-> "exception", at |-> "catch_exc"]>>, r.type)
                /\ out' = out
    /\ UNCHANGED <<input, s, vecVars, ownVars, i, fooLog, galVars, vcall>>

\* catch (const std::exception& e)
CatchException ==
    /\ pc = "catch_exc"
    /\ out' = Append(out, exc.what)
    /\ exc' = NoExc
    /\ pc' = "push_vua"
    /\ UNCHANGED <<input, s, raised, vecVars, ownVars, i, fooLog, galVars, vcall>>

(* ------------------------------------------------ 3. the A/B/C objects *)
\* B(int x) : x(x) {}
NewB(x) == [kind |-> "B", set |-> TRUE, x |-> x, alive |-> TRUE, dtors |-> 0]
\* C(int x) : y(y) {}  -- the field is initialised from itself: indeterminate
NewC(x) == [kind |-> "C", set |-> FALSE, x |-> 0, alive |-> TRUE, dtors |-> 0]

\* the line B::foo / C::foo prints (a call through a null pointer has no object)
FooLine(o) == IF o = Null THEN "(null).foo()"
              ELSE IF heap[o].kind = "B" THEN "B.foo()" ELSE "C.foo()"

\* the record of one foo() call made by routine `by`
FooCall(o, by) == [obj |-> o, by |-> by, live |-> o # Null /\ heap[o].alive]

\* operator<<(ostream&, const A&): the object's address in parentheses
RenderA(o) == "(0x" \o IntStr(o) \o ")"

\* delete (A*)o: ~A() is not virtual, so only ~A() runs on a B or a C
Deleted(hp, o) == [hp EXCEPT ![o].alive = FALSE, ![o].dtors = @ + 1]

\* vua.push_back(std::make_unique<B>(3)) ... (std::make_unique<C>(6))
PushVua ==
    /\ pc = "push_vua"
    /\ LET made == <<NewB(3), NewB(4), NewC(5), NewC(6)>>
           o == i + 1
       IN  /\ heap' = [heap EXCEPT ![o] = made[i + 1]]
           /\ vua' = Append(vua, o)
           /\ IF i + 1 < Len(made)
              THEN i' = i + 1 /\ pc' = pc
              ELSE i' = 0 /\ pc' = "make_vpa"
    /\ UNCHANGED <<input, s, out, exc, raised, vecVars, vpa, u_ptr, ctrl, handles,
                   fooLog, galVars, vcall>>

\* std::vector<A*> vpa = { new B(1), new B(2), new C(7), new C(8) }
MakeVpa ==
    /\ pc = "make_vpa"
    /\ LET made == <<NewB(1), NewB(2), NewC(7), NewC(8)>>
           base == Len(vua)
       IN  /\ heap' = [o \in ObjIds |->
                         IF o > base /\ o <= base + Len(made) THEN made[o - base] ELSE heap[o]]
           /\ vpa' = [k \in 1..Len(made) |-> base + k]
    /\ i' = 0
    /\ pc' = "loop_vua1"
    /\ UNCHANGED <<input, s, out, exc, raised, vecVars, vua, u_ptr, ctrl, handles,
                   fooLog, galVars, vcall>>

\* for (auto&& ap : vua) ap->foo();
LoopVua1 ==
    /\ pc = "loop_vua1"
    /\ out' = Append(out, FooLine(vua[i + 1]))
    /\ fooLog' = Append(fooLog, FooCall(vua[i + 1], "main"))
    /\ IF i + 1 < Len(vua)
       THEN i' = i + 1 /\ pc' = pc
       ELSE i' = 0 /\ pc' = "loop_vpa"
    /\ UNCHANGED <<input, s, exc, raised, vecVars, ownVars, galVars, vcall>>

\* for (auto ap : vpa) ap->foo();
LoopVpa ==
    /\ pc = "loop_vpa"
    /\ out' = Append(out, FooLine(vpa[i + 1]))
    /\ fooLog' = Append(fooLog, FooCall(vpa[i + 1], "main"))
    /\ IF i + 1 < Len(vpa)
       THEN i' = i + 1 /\ pc' = pc
       ELSE i' = 0 /\ pc' = "call_takes"
    /\ UNCHANGED <<input, s, exc, raised, vecVars, ownVars, galVars, vcall>>

\* index of the slot handed to takes_ownership: vua[1]
MovedSlot == 1
\* index of the slot released into a shared_ptr: vua[2]
SharedSlot == 2

\* a call that hands the pointer over without emptying the slot
CallTakesOwnership_KeepsSlot ==
    /\ pc = "call_takes"
    /\ u_ptr' = vua[MovedSlot + 1]
    /\ pc' = "takes_body"
    /\ UNCHANGED <<input, s, out, exc, raised, vecVars, heap, vua, vpa, ctrl, handles,
                   i, fooLog, galVars, vcall>>

\* takes_ownership(std::move(vua[1])): the parameter is move-constructed
CallTakesOwnership ==
    /\ pc = "call_takes"
    /\ u_ptr' = vua[MovedSlot + 1]
    /\ vua' = [vua EXCEPT ![MovedSlot + 1] = Null]
    /\ pc' = "takes_body"
    /\ UNCHANGED <<input, s, out, exc, raised, vecVars, heap, vpa, ctrl, handles,
                   i, fooLog, galVars, vcall>>

\* a body that also calls the action of the handle
TakesOwnershipBody_CallsFoo ==
    /\ pc = "takes_body"
    /\ out' = out \o <<FooLine(u_ptr), "Took ownership of: " \o RenderA(u_ptr)>>
    /\ fooLog' = Append(fooLog, FooCall(u_ptr, "takes_ownership"))
    /\ pc' = "takes_return"
    /\ UNCHANGED <<input, s, exc, raised, vecVars, ownVars, i, galVars, vcall>>

\* std::cout << "Took ownership of: " << *u_ptr << '\n';
TakesOwnershipBody ==
    /\ pc = "takes_body"
    /\ out' = Append(out, "Took ownership of: " \o RenderA(u_ptr))
    /\ pc' = "takes_return"
    /\ UNCHANGED <<input, s, exc, raised, vecVars, ownVars, i, fooLog, galVars, vcall>>

\* a return that lets go of the object without deleting it
TakesOwnershipReturn_Leaks ==
    /\ pc = "takes_return"
    /\ u_ptr' = Null
    /\ pc' = "convert"
    /\ UNCHANGED <<input, s, out, exc, raised, vecVars, heap, vua, vpa, ctrl, handles,
                   i, fooLog, galVars, vcall>>

\* takes_ownership returns: ~unique_ptr deletes the object through A*
TakesOwnershipReturn ==
    /\ pc = "takes_return"
    /\ heap' = Deleted(heap, u_ptr)
    /\ out' = Append(out, "~A()")
    /\ u_ptr' = Null
    /\ pc' = "convert"
    /\ UNCHANGED <<input, s, exc, raised, vecVars, vua, vpa, ctrl, handles,
                   i, fooLog, galVars, vcall>>

\* std::shared_ptr<A>(vua[2].release()) initialises the parameter s_ptr of
\* shared_ownership: the slot is emptied, one handle owns the object
ConvertToShared ==
    /\ pc = "convert"
    /\ ctrl' = [obj |-> vua[SharedSlot + 1], count |-> 1]
    /\ handles' = {"s_ptr"}
    /\ vua' = [vua EXCEPT ![SharedSlot + 1] = Null]
    /\ pc' = "shared_print1"
    /\ UNCHANGED <<input, s, out, exc, raised, vecVars, heap, vpa, u_ptr,
                   i, fooLog, galVars, vcall>>

\* the first two statements of shared_ownership
SharedOwnershipPrint1 ==
    /\ pc = "shared_print1"
    /\ out' = out \o <<"Took ownership of: " \o RenderA(ctrl.obj),
                       "use_count: " \o IntStr(ctrl.count)>>
    /\ pc' = "call_shared2"
    /\ UNCHANGED <<input, s, exc, raised, vecVars, ownVars, i, fooLog, galVars, vcall>>

\* a nested call that moves the handle instead of copying it
CallSharedOwnership2_Moves ==
    /\ pc = "call_shared2"
    /\ handles' = {"s_ptr2"}
    /\ pc' = "shared2_body"
    /\ UNCHANGED <<input, s, out, exc, raised, vecVars, heap, vua, vpa, u_ptr, ctrl,
                   i, fooLog, galVars, vcall>>

\* shared_ownership2(s_ptr): the parameter is a copy, one more owner
CallSharedOwnership2 ==
    /\ pc = "call_shared2"
    /\ ctrl' = [ctrl EXCEPT !.count = @ + 1]
    /\ handles' = handles \cup {"s_ptr2"}
    /\ pc' = "shared2_body"
    /\ UNCHANGED <<input, s, out, exc, raised, vecVars, heap, vua, vpa, u_ptr,
                   i, fooLog, galVars, vcall>>

\* the two statements of shared_ownership2
SharedOwnership2Body ==
    /\ pc = "shared2_body"
    /\ out' = out \o <<"Took ownership of: " \o RenderA(ctrl.obj),
                       "use_count: " \o IntStr(ctrl.count)>>
    /\ pc' = "shared2_return"
    /\ UNCHANGED <<input, s, exc, raised, vecVars, ownVars, i, fooLog, galVars, vcall>>

\* ~shared_ptr of handle hd: one owner fewer; the last one deletes through A*
ReleaseHandle(hd, next) ==
    /\ hd \in handles
    /\ handles' = handles \ {hd}
    /\ ctrl' = [ctrl EXCEPT !.count = @ - 1]
    /\ IF ctrl.count = 1
       THEN heap' = Deleted(heap, ctrl.obj) /\ out' = Append(out, "~A()")
       ELSE UNCHANGED <<heap, out>>
    /\ pc' = next
    /\ UNCHANGED <<input, s, exc, raised, vecVars, vua, vpa, u_ptr, i, fooLog, galVars, vcall>>

\* shared_ownership2 returns: its parameter is destroyed
SharedOwnership2Return ==
    /\ pc = "shared2_return"
    /\ ReleaseHandle("s_ptr2", "shared_print2")

\* the last statement of shared_ownership
SharedOwnershipPrint2 ==
    /\ pc = "shared_print2"
    /\ out' = Append(out, "use_count: " \o IntStr(ctrl.count))
    /\ pc' = "shared_return"
    /\ UNCHANGED <<input, s, exc, raised, vecVars, ownVars, i, fooLog, galVars, vcall>>

\* shared_ownership returns: its parameter is destroyed
SharedOwnershipReturn ==
    /\ pc = "shared_return"
    /\ ReleaseHandle("s_ptr", "loop_vua2")

\* a second loop without the test for an empty slot
LoopVua2_NoCheck ==
    /\ pc = "loop_vua2"
    /\ out' = Append(out, FooLine(vua[i + 1]))
    /\ fooLog' = Append(fooLog, FooCall(vua[i + 1], "main"))
    /\ IF i + 1 < Len(vua)
       THEN i' = i + 1 /\ pc' = pc
       ELSE i' = 0 /\ pc' = "gallery"
    /\ UNCHANGED <<input, s, exc, raised, vecVars, ownVars, galVars, vcall>>

\* for (auto&& ap : vua) { if (!ap) ... else ap->foo(); }
LoopVua2 ==
    /\ pc = "loop_vua2"
    /\ IF vua[i + 1] = Null
       THEN /\ out' = Append(out, "The ownership has moved away!")
            /\ fooLog' = fooLog
       ELSE /\ out' = Append(out, FooLine(vua[i + 1]))
            /\ fooLog' = Append(fooLog, FooCall(vua[i + 1], "main"))
    /\ IF i + 1 < Len(vua)
       THEN i' = i + 1 /\ pc' = pc
       ELSE i' = 0 /\ pc' = "gallery"
    /\ UNCHANGED <<input, s, exc, raised, vecVars, ownVars, galVars, vcall>>

\* a delete through A* of a B or a C object is undefined (~A is not virtual):
\* a build that checks the deallocation ends the run there, after ~A() ran
DeleteMismatchFatal ==
    /\ pc \in {"takes_return", "shared_return", "main_return"}
    /\ LET o == IF pc = "takes_return" THEN u_ptr
                ELSE IF pc = "shared_return" THEN ctrl.obj
                ELSE vua[1]
       IN  heap' = Deleted(heap, o)
    /\ out' = Append(out, "~A()")
    /\ pc' = "crashed"
    /\ UNCHANGED <<input, s, exc, raised, vecVars, vua, vpa, u_ptr, ctrl, handles,
                   i, fooLog, galVars, vcall>>

(* ------------------------------------------------------- 4. the lambdas *)
\* std::string john = "John Doe"
John == "John Doe"

\* an Adder whose operator() appends instead of prepending
CallFn_AdderSwapped(fn, name) ==
    CASE fn.kind = "foo" -> greet \o name
      [] fn.kind = "bar" -> name \o "got the secret (" \o IntStr(fn.secret) \o ")"
      [] fn.kind = "baz" -> name \o fn.y

\* f(john) for an element of fv: the lambda foo reads greet through its
\* reference, the lambda bar uses its copy of secret, Adder::operator() is y + t
CallFn(fn, name) ==
    CASE fn.kind = "foo" -> greet \o name
      [] fn.kind = "bar" -> name \o "got the secret (" \o IntStr(fn.secret) \o ")"
      [] fn.kind = "baz" -> fn.y \o name

\* greet, secret, the two lambdas, the Adder, and the three push_back calls
SetupGallery ==
    /\ pc = "gallery"
    /\ greet' = "Hello, "
    /\ secret' = SecretValue
    /\ fv' = <<[kind |-> "foo", secret |-> 0, y |-> ""],
               [kind |-> "bar", secret |-> SecretValue, y |-> ""],
               [kind |-> "baz", secret |-> 0, y |-> "Bye, "]>>
    /\ i' = 0
    /\ pc' = "invoke"
    /\ UNCHANGED <<input, s, out, exc, raised, vecVars, ownVars, fooLog, sv, vcall>>

\* for (auto f : fv) { sv.push_back(f(john)); std::cout << "a\n"; }
InvokeGallery ==
    /\ pc = "invoke"
    /\ sv' = Append(sv, CallFn(fv[i + 1], John))
    /\ out' = Append(out, "a")
    /\ IF i + 1 < Len(fv)
       THEN i' = i + 1 /\ pc' = pc
       ELSE i' = 0 /\ pc' = "print_sv"
    /\ UNCHANGED <<input, s, exc, raised, vecVars, ownVars, fooLog, greet, secret, fv, vcall>>

\* for (auto s : sv) std::cout << s << '\n';
PrintSv ==
    /\ pc = "print_sv"
    /\ out' = Append(out, sv[i + 1])
    /\ IF i + 1 < Len(sv)
       THEN i' = i + 1 /\ pc' = pc
       ELSE i' = 0 /\ pc' = "main_return"
    /\ UNCHANGED <<input, s, exc, raised, vecVars, ownVars, fooLog, galVars, vcall>>

\* the objects still owned by slots of vua, in slot order
RECURSIVE Owned(_)
Owned(slots) ==
    IF slots = <<>> THEN <<>>
    ELSE IF Head(slots) = Null THEN Owned(Tail(slots))
    ELSE <<Head(slots)>> \o Owned(Tail(slots))

\* main returns: ~vector deletes what its slots still own (through A*);
\* nothing deletes the objects of vpa
MainReturn ==
    /\ pc = "main_return"
    /\ LET dying == Owned(vua)
       IN  /\ heap' = [o \in ObjIds |->
                         IF \E k \in 1..Len(dying) : dying[k] = o
                         THEN Deleted(heap, o)[o] ELSE heap[o]]
           /\ out' = out \o [k \in 1..Len(dying) |-> "~A()"]
    /\ vua' = [k \in 1..Len(vua) |-> Null]
    /\ pc' = "done"
    /\ UNCHANGED <<input, s, exc, raised, vecVars, vpa, u_ptr, ctrl, handles,
                   i, fooLog, galVars, vcall>>

(* --------------------------------------- Vec operations on drawn operands *)
ElemSet == {Dec(1, 1), Dec(5, 1), Dec(3, 0)}

RECURSIVE ListsUpTo(_)
ListsUpTo(n) ==
    IF n = 0 THEN {<<>>}
    ELSE LET shorter == ListsUpTo(n - 1)
         IN  shorter \cup {Append(l, x) : l \in {u \in shorter : Len(u) = n - 1}, x \in ElemSet}

\* the values a Vec<T,N> object can hold, 1 <= N <= MaxN
Vecs == ListsUpTo(MaxN) \ {<<>>}

mainVars == <<pc, input, s, out, exc, raised, vecVars, ownVars, i, fooLog, galVars>>

\* Vec<T,N> v(il), for a drawn N and a drawn list, one element longer at most
DoVecInit ==
    /\ pc = "vec" /\ vcall = NoCall
    /\ \E N \in 1..MaxN, il \in ListsUpTo(MaxN + 1) :
          vcall' = [op |-> "init", n |-> N, a |-> il, b |-> <<>>, res |-> VecInit(N, il)]
    /\ UNCHANGED mainVars

\* a + b
DoVecAdd ==
    /\ pc = "vec" /\ vcall = NoCall
    /\ \E a \in Vecs, b \in Vecs :
          vcall' = [op |-> "add", n |-> Len(a), a |-> a, b |-> b, res |-> VecAdd(a, b)]
    /\ UNCHANGED mainVars

\* a * b
DoVecMul ==
    /\ pc = "vec" /\ vcall = NoCall
    /\ \E a \in Vecs, b \in Vecs :
          vcall' = [op |-> "mul", n |-> Len(a), a |-> a, b |-> b, res |-> VecMul(a, b)]
    /\ UNCHANGED mainVars

InitAt(start, tokens) ==
    /\ pc = start
    /\ input \in tokens
    /\ s = ""
    /\ out = <<>>
    /\ exc = NoExc
    /\ raised = <<>>
    /\ f = <<>> /\ g = <<>> /\ h = <<>>
    /\ heap = [o \in ObjIds |-> NoObj]
    /\ vua = <<>> /\ vpa = <<>>
    /\ u_ptr = Null
    /\ ctrl = NoCtrl
    /\ handles = {}
    /\ i = 0
    /\ fooLog = <<>>
    /\ greet = "" /\ secret = 0
    /\ fv = <<>> /\ sv = <<>>
    /\ vcall = NoCall

InitVec == InitAt("vec", {""})
NextVec == DoVecInit \/ DoVecAdd \/ DoVecMul
SpecVec == InitVec /\ [][NextVec]_vars

(* --------------------------------------------------------- the run of main *)
Init == InitAt("read", Tokens)

Next ==
    \/ ReadToken \/ Validate \/ CatchOutOfRange \/ CatchInvalidArgument
    \/ ConstructVecs \/ PrintVecExpr \/ PrintVecExprNoReturn \/ TryAdd \/ CatchException
    \/ PushVua \/ MakeVpa \/ LoopVua1 \/ LoopVpa
    \/ CallTakesOwnership \/ TakesOwnershipBody \/ TakesOwnershipReturn
    \/ ConvertToShared \/ SharedOwnershipPrint1 \/ CallSharedOwnership2
    \/ SharedOwnership2Body \/ SharedOwnership2Return \/ SharedOwnershipPrint2
    \/ SharedOwnershipReturn \/ LoopVua2 \/ DeleteMismatchFatal
    \/ SetupGallery \/ InvokeGallery \/ PrintSv \/ MainReturn

Spec == Init /\ [][Next]_vars

(* ---------------------------------------------------- claims about main *)
\* the positions of a run that has not ended abnormally, in program order
PcOrder == <<"read", "validate", "catch_oor", "catch_ia", "construct", "print_expr",
             "try_add", "catch_exc", "push_vua", "make_vpa", "loop_vua1", "loop_vpa",
             "call_takes", "takes_body", "takes_return", "convert", "shared_print1",
             "call_shared2", "shared2_body", "shared2_return", "shared_print2",
             "shared_return", "loop_vua2", "gallery", "invoke", "print_sv",
             "main_return", "done">>
Pos(p) == CHOOSE k \in 1..Len(PcOrder) : PcOrder[k] = p
Running == \E k \in 1..Len(PcOrder) : PcOrder[k] = pc
\* the run stands at position p or later
Reached(p) == Running /\ Pos(pc) >= Pos(p)
\* the last k lines written
LastLines(k) == SubSeq(out, Len(out) - k + 1, Len(out))

\* the object takes_ownership received, and the one made shared (objects are
\* numbered in creation order: slot k of vua first holds object k + 1)
MovedObj == MovedSlot + 1
SharedObj == SharedSlot + 1

\* C1: the validator prints exactly one line, fixed by the token's length:
\* "Out of range" above 10, "invalid argument" below 5 (the empty token too),
\* the token itself from 5 to 10, and then no exception was thrown.
C1_Validator ==
    /\ pc \in {"read", "validate", "catch_oor", "catch_ia"} => out = <<>>
    /\ pc = "construct" =>
          /\ Len(out) = 1
          /\ out[1] = IF Len(input) > 10 THEN "Out of range"
                      ELSE IF Len(input) < 5 THEN "invalid argument"
                      ELSE input
          /\ Len(input) >= 5 /\ Len(input) <= 10 => raised = <<>>

\* a token of the longest accepted length was echoed
C1_Witness == pc = "construct" /\ Len(input) = 10 /\ out = <<input>>

CountLine(k) == "use_count: " \o IntStr(k)
\* the use counts printed so far, in order
CountsPrinted == SelectSeq(out, LAMBDA l : \E k \in 0..9 : l = CountLine(k))

\* C4 as stated: the counts printed by shared_ownership and shared_ownership2
\* are 2, then 3, then 2.
C4_Counts232 ==
    Reached("shared_return") => CountsPrinted = <<CountLine(2), CountLine(3), CountLine(2)>>

\* C4 amended: the counts printed are 1 (in shared_ownership before the
\* nested call), 2 (inside shared_ownership2) and 1 (after it returns).
C4_Counts121 ==
    /\ Reached("call_shared2") => CountsPrinted[1] = CountLine(1)
    /\ Reached("shared2_return") => CountsPrinted[2] = CountLine(2)
    /\ Reached("shared_return") => CountsPrinted = <<CountLine(1), CountLine(2), CountLine(1)>>

\* shared_ownership has printed its second count and is about to return
C4_Witness == pc = "shared_return" /\ Len(CountsPrinted) = 3 /\ vua[SharedSlot + 1] = Null

Moved == "The ownership has moved away!"

\* C5 as stated: the second loop over vua reports index 1 as moved away and
\* invokes the action at indices 0, 2 and 3.
C5_OnlyIndex1Moved ==
    pc = "gallery" => LastLines(4) = <<"B.foo()", Moved, "C.foo()", "C.foo()">>

\* C5 amended: the second loop over vua reports indices 1 and 2 as moved away
\* (index 2 was released into the shared handle) and invokes the action at
\* indices 0 and 3 only.
C5_Index1And2Moved ==
    pc = "gallery" =>
        /\ LastLines(4) = <<"B.foo()", Moved, Moved, "C.foo()">>
        /\ fooLog[Len(fooLog) - 1].obj = 1
        /\ fooLog[Len(fooLog)].obj = 4

\* the second loop has ended with both slots empty
C5_Witness == pc = "gallery" /\ vua[MovedSlot + 1] = Null /\ vua[SharedSlot + 1] = Null
              /\ out[Len(out)] = "C.foo()"

\* the number of foo() calls routine r has made
CallsBy(r) == Len(SelectSeq(fooLog, LAMBDA c : c.by = r))
\* the "Took ownership of: ..." lines written so far
TookLines == SelectSeq(out, LAMBDA l : \E o \in ObjIds : l = "Took ownership of: " \o RenderA(o))

\* C6 as stated: each of takes_ownership, shared_ownership and
\* shared_ownership2 invokes foo on its handle exactly once per call.
C6_FooOncePerCall ==
    /\ Reached("convert") => CallsBy("takes_ownership") = 1
    /\ Reached("loop_vua2") => CallsBy("shared_ownership") = 1
                                /\ CallsBy("shared_ownership2") = 1

\* C6 amended: none of the three routines invokes foo; each call prints the
\* rendering of its handle exactly once (every foo call is made by main).
C6_NoFooInRoutines ==
    /\ \A k \in 1..Len(fooLog) : fooLog[k].by = "main"
    /\ Reached("convert") => Len(TookLines) >= 1
    /\ Reached("loop_vua2") =>
          TookLines = <<"Took ownership of: " \o RenderA(MovedObj),
                        "Took ownership of: " \o RenderA(SharedObj),
                        "Took ownership of: " \o RenderA(SharedObj)>>

\* all three routines have run and returned
C6_Witness == pc = "loop_vua2" /\ Len(TookLines) = 3 /\ CallsBy("main") = 8

GalleryOutputs == <<"Hello, John Doe", "John Doegot the secret (42)", "Bye, John Doe">>

\* C7: the three callables are invoked in insertion order on "John Doe"; the
\* collected outputs are "Hello, John Doe", "John Doegot the secret (42)",
\* "Bye, John Doe", printed in that order after the whole collection pass.
C7_Gallery ==
    /\ Reached("invoke") => /\ Len(sv) <= Len(GalleryOutputs)
                            /\ sv = SubSeq(GalleryOutputs, 1, Len(sv))
    /\ pc = "print_sv" /\ i = 0 => sv = GalleryOutputs /\ LastLines(3) = <<"a", "a", "a">>
    /\ pc = "main_return" => LastLines(6) = <<"a", "a", "a">> \o GalleryOutputs

\* the collection pass and the printing pass are over
C7_Witness == pc = "main_return" /\ Len(sv) = 3 /\ out[Len(out)] = "Bye, John Doe"

\* C8: every error raised is caught at the nearest enclosing handler, its
\* message is printed and execution continues; nothing escapes main, and the
\* run does not end abnormally.
C8_NoAbnormalEnd ==
    /\ pc # "terminated"
    /\ pc # "crashed"
    /\ pc \notin {"catch_oor", "catch_ia", "catch_exc"} => exc = NoExc
    /\ pc = "done" => \A k \in 1..Len(raised) : \E j \in 1..Len(out) : out[j] = raised[k].what

\* C9: the object handed to takes_ownership is destroyed exactly when that
\* routine returns, so before shared_ownership is entered; the shared object
\* is destroyed exactly when the use count reaches 0, which is after
\* shared_ownership returns and before the second loop over vua.
C9_DestructionTimes ==
    Reached("make_vpa") =>
        /\ ~heap[MovedObj].alive <=> Reached("convert")
        /\ ~heap[SharedObj].alive <=> ctrl.obj = SharedObj /\ ctrl.count = 0
        /\ ~heap[SharedObj].alive <=> Reached("loop_vua2")
        /\ pc = "shared_return" => heap[SharedObj].alive /\ ctrl.count = 1

\* the second loop is about to start and both objects are gone
C9_Witness ==
    /\ pc = "loop_vua2" /\ i = 0
    /\ heap[MovedObj].dtors = 1 /\ heap[SharedObj].dtors = 1 /\ ctrl.count = 0

ExclusiveOwners(o) ==
    Cardinality({k \in DOMAIN vua : vua[k] = o}) + (IF u_ptr = o THEN 1 ELSE 0)
IsShared(o) == ctrl.obj = o /\ handles # {}
Unmanaged == {vpa[k] : k \in DOMAIN vpa}
Managed == {o \in ObjIds : heap[o].kind # "none"} \ Unmanaged

OwnershipInv ==
    /\ \A o \in ObjIds : heap[o].dtors <= 1
    /\ \A o \in Managed :
          heap[o].alive =>
              \/ ExclusiveOwners(o) = 1 /\ ~IsShared(o)
              \/ ExclusiveOwners(o) = 0 /\ IsShared(o) /\ ctrl.count = Cardinality(handles)
    /\ \A k \in 1..Len(fooLog) : fooLog[k].live
    /\ \A o \in Unmanaged : heap[o].alive /\ heap[o].dtors = 0

SlotsStayEmpty ==
    \A k \in DOMAIN vua : vua[k] = Null => k \in DOMAIN vua' /\ vua'[k] = Null

\* C10: in every state of the ownership demonstration no object is destroyed
\* twice, a live managed object has either exactly one exclusive owner or
\* shared handles as many as the use count (never both), no foo call goes
\* through an empty slot or to a destroyed object, the objects of vpa are never
\* destroyed; and an emptied slot stays empty.
C10_Ownership == []OwnershipInv /\ [][SlotsStayEmpty]_vars

\* a state with an emptied slot, a shared object with two handles, and a
\* destroyed object
C10_Witness ==
    /\ pc = "shared2_body" /\ handles = {"s_ptr", "s_ptr2"} /\ ctrl.count = 2
    /\ vua[MovedSlot + 1] = Null /\ ~heap[MovedObj].alive /\ heap[SharedObj].alive

(* ------------------------------------------------- claims about Vec<T,N> *)
\* exact value comparison: r = x + y, r = x * y (cross-multiplied, no rounding)
IsSum(r, x, y) ==
    r.n * Pow10(x.e + y.e) = (x.n * Pow10(y.e) + y.n * Pow10(x.e)) * Pow10(r.e)
IsProduct(r, x, y) ==
    r.n * Pow10(x.e + y.e) = (x.n * y.n) * Pow10(r.e)

C3_ListConstruct ==
    vcall.op = "init" =>
        LET il == vcall.a
            r == vcall.res
        IN  /\ ~r.ok <=> Len(il) # vcall.n
            /\ ~r.ok => r.type = "invalid_argument" /\ r.what = "Wrong number of arguments!"
            /\ r.ok => /\ Len(r.val) = vcall.n
                       /\ \A k \in 1..vcall.n : r.val[k] = il[k]

\* a list of MaxN distinct-looking values accepted by a Vec of that size
C3_Witness ==
    /\ vcall.op = "init" /\ vcall.res.ok /\ vcall.n = MaxN
    /\ vcall.a[1] # vcall.a[MaxN]

====
